---- MODULE Spec2Model ----
(***************************************************************************)
(* Opening explorer: master importer, merge operators of the game and      *)
(* personal column families, the prefix-bounded personal scan, the         *)
(* personal query stream, the moves list of a response and the varint      *)
(* codec.                                                                  *)
(*                                                                         *)
(* Seven state machines share this module.  Each has its own variables,    *)
(* its own Init and Next, and leaves the other machines' variables at      *)
(* their idle values:                                                      *)
(*   SpecImport    MasterImporter::import called from concurrent handlers  *)
(*   SpecGame      one key of the "game" column family under game_merge    *)
(*   SpecPersonal  the "personal" column family under personal_merge and   *)
(*                 the range scan of get_personal                          *)
(*   SpecMergeFn   game_merge / personal_merge applied to arbitrary bytes  *)
(*   SpecStream    the unfold closure of the /personal handler             *)
(*   SpecQuery     the moves list of a /master and a /personal response    *)
(*   SpecUintRoundtrip, SpecUintRead   write_uint and read_uint            *)
(***************************************************************************)
EXTENDS Integers, Sequences, FiniteSets, TLC

\* ------------------------------------------------------------------ options
\* Option<T>: None is the empty sequence, Some(x) the one-element sequence.
None == <<>>
Some(x) == <<x>>
IsSome(o) == o # <<>>
Unwrap(o) == o[1]

\* ---------------------------------------------------------------- state
VARIABLES
    \* master importer
    pc,       \* per handler: "idle", "walk", "write", "done"
    body,     \* per handler: the request body of the call in progress
    result,   \* per handler: "none", "Ok", "RejectedImport", "DuplicateGame", "InvalidMove"
    guard,    \* per handler: what _guard holds: "none" or "future"
    mutex,    \* the importer mutex: "unlocked" or "locked"
    games,    \* GameId -> Option<MasterGame>
    master,   \* master key -> sequence of merge operands
    \* one key of the game column family
    gameBase,   \* the key's stored value: Option<bytes>
    gameOps,    \* the key's merge operands not yet folded into gameBase
    gameLog,    \* history: every value written to the key, in order
    \* the personal column family
    personal,     \* key bytes -> [base: Option<bytes>, ops: sequence of bytes]
    personalLog,  \* history: key bytes -> every value written to the key, in order
    scan,         \* the last range query and the entry it returned: Option
    \* the merge operators applied to given bytes
    fnExisting,   \* the existing value handed to the operator: Option<bytes>
    fnOperands,   \* the operand list handed to the operator
    fnGame,       \* Option of the result of game_merge on them
    fnPersonal,   \* Option of the result of personal_merge on them
    \* the personal query stream
    indexing,     \* state.indexing: Option<watch::Receiver>
    chan,         \* the watch channel: "open", "changed", "seen", "closed"
    stFirst,      \* state.first
    stDone,       \* state.done
    streamPc,     \* "idle" between polls, "select" suspended in select!, "ended"
    timerFired,   \* the sleep of the select! in progress has elapsed
    sleepMs,      \* duration of the sleep of the last select! entered: Option
    total,        \* total.total() of the store's aggregate for the query
    doneTotal,    \* history: Option of `total` when the indexer signalled done
    computed,     \* history: total.total() of every snapshot the closure computed
    emitted,      \* history: total.total() of every snapshot the stream emitted
    \* the moves list of a query response
    qRows,        \* the moves of the folded entry, in the entry's order
    qLimit,       \* limits.moves: Option<usize>
    qResponse,    \* Option of the last response: which handler, its moves list
    \* the varint codec
    uintN,        \* the u64 handed to write_uint, as the set of its one bits
    uintBytes,    \* the bytes handed to read_uint
    uintWritten,  \* Option of the bytes write_uint produced from uintN
    uintRead      \* Option of the last result of read_uint

importVars == <<pc, body, result, guard, mutex, games, master>>
gameVars == <<gameBase, gameOps, gameLog>>
personalVars == <<personal, personalLog, scan>>
fnVars == <<fnExisting, fnOperands, fnGame, fnPersonal>>
streamVars == <<indexing, chan, stFirst, stDone, streamPc, timerFired,
                sleepMs, total, doneTotal, computed, emitted>>
queryVars == <<qRows, qLimit, qResponse>>
uintVars == <<uintN, uintBytes, uintWritten, uintRead>>
vars == <<importVars, gameVars, personalVars, fnVars, streamVars, queryVars,
          uintVars>>

\* What each machine leaves alone.
notImport == <<gameVars, personalVars, fnVars, streamVars, queryVars, uintVars>>
notGame == <<importVars, personalVars, fnVars, streamVars, queryVars, uintVars>>
notPersonal == <<importVars, gameVars, fnVars, streamVars, queryVars, uintVars>>
notFn == <<importVars, gameVars, personalVars, streamVars, queryVars, uintVars>>
notStream == <<importVars, gameVars, personalVars, fnVars, queryVars, uintVars>>
notQuery == <<importVars, gameVars, personalVars, fnVars, streamVars, uintVars>>
notUint == <<importVars, gameVars, personalVars, fnVars, streamVars, queryVars>>

\* ------------------------------------------------------------------ bounds
\* Longest move list of an imported game.
MaxMoves == 3
\* Largest game year (as an offset) an import carries.
MaxImportYear == 1

\* --------------------------------------------------------- master importer
\* Rating threshold of the importer.
MinAverageRating == 2200

\* Two import requests, each served by its own handler task; the runtime is
\* multi-threaded, so the two calls may run in parallel.
Procs == {"h1", "h2"}
GameIds == {"X", "Y"}
\* Ratings around the threshold: both below, both above, and the odd pair
\* 2199/2201 whose sum is exactly 2 * 2200.
Ratings == {2199, 2201}
ImportYears == 0..MaxImportYear
Ucis == {"a", "b"}

\* The chess collaborator, abstracted to a graph of three positions.
\* Position 0 is the starting position; 0 -a-> 1 -a-> 0 is a loop;
\* position 2 has no legal move.
Positions == 0..2
StartPos == 0
Legal(pos, uci) == pos \in {0, 1}
Play(pos, uci) ==
    IF uci = "b" THEN 2
    ELSE IF pos = 0 THEN 1 ELSE 0
Turn(pos) == IF pos = 1 THEN "black" ELSE "white"
Other(color) == IF color = "white" THEN "black" ELSE "white"

MoveLists == UNION {[1..n -> Ucis] : n \in 0..MaxMoves}

\* MasterGameWithId: the request body.
Bodies ==
    [id : GameIds, white : Ratings, black : Ratings,
     year : ImportYears, moves : MoveLists]

\* MasterGame: the body without its id.
Game(b) == [white |-> b.white, black |-> b.black, year |-> b.year, moves |-> b.moves]

MasterKeys == Positions \X ImportYears

NoBody == [id |-> "X", white |-> 2201, black |-> 2201, year |-> 0, moves |-> <<>>]

\* if white.rating / 2 + black.rating / 2 < 2200
RatingTooLow(white, black) == (white \div 2) + (black \div 2) < MinAverageRating

\* self.mutex.lock() without .await: the future is built and never polled,
\* so the state of the mutex is what it was.
MutexLockUnawaited(m) == m

has_master_game(g, id) == IsSome(g[id])
has_master(m, key) == m[key] # <<>>

\* The duplicate check left out.
DuplicateIdSkipped(g, id) == FALSE

\* if queryable.has_master_game(body.id) { return Err(DuplicateGame) }
DuplicateId(g, id) == has_master_game(g, id)

\* The move walk: without_loops, final_key and whether every move was legal.
RECURSIVE WalkFrom(_, _, _, _, _, _)
WalkFrom(moves, year, i, pos, without_loops, final_key) ==
    IF i > Len(moves)
    THEN [ok |-> TRUE, without_loops |-> without_loops, final_key |-> final_key]
    ELSE LET key == <<pos, year>>
         IN  IF ~Legal(pos, moves[i])
             THEN [ok |-> FALSE, without_loops |-> without_loops,
                   final_key |-> Some(key)]
             ELSE WalkFrom(moves, year, i + 1, Play(pos, moves[i]),
                           [k \in DOMAIN without_loops \cup {key} |->
                               IF k = key THEN <<moves[i], Turn(pos)>>
                               ELSE without_loops[k]],
                           Some(key))

Walk(b) == WalkFrom(b.moves, b.year, 1, StartPos, <<>>, None)

\* The final-key check left out.
DuplicateFinalKeyNever(m, final_key) == FALSE

\* if let Some(final_key) = final_key { if has_master(final_key) { Duplicate } }
DuplicateFinalKey(m, final_key) ==
    IsSome(final_key) /\ has_master(m, Unwrap(final_key))

ByColor(b, color) == IF color = "white" THEN b.white ELSE b.black

\* MasterEntry::new_single(uci, id, outcome, rating, opponent rating)
new_single(uci, id, rating, opponent) ==
    [uci |-> uci, id |-> id, rating |-> rating, opponent |-> opponent]

\* The write batch: put_master_game, then one merge_master per key of
\* without_loops; batch.write() applies all of it at once.
BatchGames(g, b) == [g EXCEPT ![b.id] = Some(Game(b))]
\* The batch with the merges left out.
BatchMasterNone(m, b, without_loops) == m
\* The batch with one merge per ply instead of one per key of without_loops.
RECURSIVE PlyKeys(_, _, _, _)
PlyKeys(moves, year, i, pos) ==
    IF i > Len(moves) THEN <<>>
    ELSE <<<<pos, year>>>> \o PlyKeys(moves, year, i + 1, Play(pos, moves[i]))
RECURSIVE MergePerPly(_, _, _, _)
MergePerPly(m, b, keys, i) ==
    IF i > Len(keys) THEN m
    ELSE MergePerPly([m EXCEPT ![keys[i]] =
                        Append(@, new_single(b.moves[i], b.id, b.white, b.black))],
                     b, keys, i + 1)
BatchMasterPerPly(m, b, without_loops) ==
    MergePerPly(m, b, PlyKeys(b.moves, b.year, 1, StartPos), 1)
BatchMaster(m, b, without_loops) ==
    [k \in DOMAIN m |->
        IF k \in DOMAIN without_loops
        THEN Append(m[k],
                    new_single(without_loops[k][1], b.id,
                               ByColor(b, without_loops[k][2]),
                               ByColor(b, Other(without_loops[k][2]))))
        ELSE m[k]]

InitImport ==
    /\ pc = [p \in Procs |-> "idle"]
    /\ body = [p \in Procs |-> NoBody]
    /\ result = [p \in Procs |-> "none"]
    /\ guard = [p \in Procs |-> "none"]
    /\ mutex = "unlocked"
    /\ games = [id \in GameIds |-> None]
    /\ master = [k \in MasterKeys |-> <<>>]

\* A handler calls import(body): the rating check, the lock() call and the
\* has_master_game read.
ImportCheck(p) ==
    /\ pc[p] = "idle"
    /\ \E b \in Bodies :
        /\ body' = [body EXCEPT ![p] = b]
        /\ IF RatingTooLow(b.white, b.black)
           THEN /\ pc' = [pc EXCEPT ![p] = "done"]
                /\ result' = [result EXCEPT ![p] = "RejectedImport"]
                /\ UNCHANGED <<guard, mutex>>
           ELSE /\ guard' = [guard EXCEPT ![p] = "future"]
                /\ mutex' = MutexLockUnawaited(mutex)
                /\ IF DuplicateId(games, b.id)
                   THEN /\ pc' = [pc EXCEPT ![p] = "done"]
                        /\ result' = [result EXCEPT ![p] = "DuplicateGame"]
                   ELSE /\ pc' = [pc EXCEPT ![p] = "walk"]
                        /\ result' = [result EXCEPT ![p] = "none"]
    /\ UNCHANGED <<games, master>>
    /\ UNCHANGED notImport

\* The move walk with put_master_game written through at once instead of
\* being collected in the batch.
ImportWalkUnbatched(p) ==
    /\ pc[p] = "walk"
    /\ LET w == Walk(body[p])
       IN  IF ~w.ok
           THEN /\ pc' = [pc EXCEPT ![p] = "done"]
                /\ result' = [result EXCEPT ![p] = "InvalidMove"]
           ELSE IF DuplicateFinalKey(master, w.final_key)
           THEN /\ pc' = [pc EXCEPT ![p] = "done"]
                /\ result' = [result EXCEPT ![p] = "DuplicateGame"]
           ELSE /\ pc' = [pc EXCEPT ![p] = "write"]
                /\ UNCHANGED result
    /\ games' = BatchGames(games, body[p])
    /\ UNCHANGED <<body, guard, mutex, master>>
    /\ UNCHANGED notImport

\* The move walk and the has_master read of the final key.
ImportWalk(p) ==
    /\ pc[p] = "walk"
    /\ LET w == Walk(body[p])
       IN  IF ~w.ok
           THEN /\ pc' = [pc EXCEPT ![p] = "done"]
                /\ result' = [result EXCEPT ![p] = "InvalidMove"]
           ELSE IF DuplicateFinalKey(master, w.final_key)
           THEN /\ pc' = [pc EXCEPT ![p] = "done"]
                /\ result' = [result EXCEPT ![p] = "DuplicateGame"]
           ELSE /\ pc' = [pc EXCEPT ![p] = "write"]
                /\ UNCHANGED result
    /\ UNCHANGED <<body, guard, mutex, games, master>>
    /\ UNCHANGED notImport

\* batch.write() and Ok(()).
ImportWrite(p) ==
    /\ pc[p] = "write"
    /\ games' = BatchGames(games, body[p])
    /\ master' = BatchMaster(master, body[p], Walk(body[p]).without_loops)
    /\ pc' = [pc EXCEPT ![p] = "done"]
    /\ result' = [result EXCEPT ![p] = "Ok"]
    /\ UNCHANGED <<body, guard, mutex>>
    /\ UNCHANGED notImport

NextImport ==
    \/ \E p \in Procs : ImportCheck(p)
    \/ \E p \in Procs : ImportWalk(p)
    \/ \E p \in Procs : ImportWrite(p)

\* ------------------------------------------------- game column family
\* Largest number of merge_game_info calls on the key.
MaxGameMerges == 3

\* GameInfo: the scalar fields (players, ratings, result, date, speed...)
\* stand as one value; indexed.white and indexed.black are the two flags.
ScalarValues == {0, 1}
GameInfos == [scalars : ScalarValues, white : BOOLEAN, black : BOOLEAN]

\* GameInfo::write: one byte of scalars, one byte of flags.
GameInfoWrite(info) ==
    <<info.scalars,
      (IF info.white THEN 1 ELSE 0) + (IF info.black THEN 2 ELSE 0)>>

\* GameInfo::read: Ok(info), or Err on bytes that are no GameInfo.
GameInfoReadOk(bytes) ==
    /\ Len(bytes) >= 2
    /\ bytes[1] \in ScalarValues
    /\ bytes[2] \in 0..3
GameInfoRead(bytes) ==
    [scalars |-> bytes[1],
     white |-> bytes[2] % 2 = 1,
     black |-> bytes[2] \div 2 = 1]

\* The loop of game_merge over existing.into_iter().chain(operands): info is
\* the Option<GameInfo> held so far; panic is the failed expect.
RECURSIVE GameMergeLoop(_, _, _)
GameMergeLoop(chain, i, info) ==
    IF i > Len(chain)
    THEN [panic |-> FALSE, info |-> info]
    ELSE IF ~GameInfoReadOk(chain[i])
    THEN [panic |-> TRUE, info |-> None]
    ELSE LET new_info == GameInfoRead(chain[i])
             merged ==
                 IF IsSome(info)
                 THEN [new_info EXCEPT
                          !.white = new_info.white \/ Unwrap(info).white,
                          !.black = new_info.black \/ Unwrap(info).black]
                 ELSE new_info
         IN  GameMergeLoop(chain, i + 1, Some(merged))

\* The same loop without the two |= lines.
RECURSIVE GameMergeLoopNoOr(_, _, _)
GameMergeLoopNoOr(chain, i, info) ==
    IF i > Len(chain)
    THEN [panic |-> FALSE, info |-> info]
    ELSE IF ~GameInfoReadOk(chain[i])
    THEN [panic |-> TRUE, info |-> None]
    ELSE GameMergeLoopNoOr(chain, i + 1, Some(GameInfoRead(chain[i])))

\* The same loop keeping the first record read instead of the latest.
RECURSIVE GameMergeLoopKeepFirst(_, _, _)
GameMergeLoopKeepFirst(chain, i, info) ==
    IF i > Len(chain)
    THEN [panic |-> FALSE, info |-> info]
    ELSE IF ~GameInfoReadOk(chain[i])
    THEN [panic |-> TRUE, info |-> None]
    ELSE LET new_info == GameInfoRead(chain[i])
             merged ==
                 IF IsSome(info)
                 THEN [Unwrap(info) EXCEPT
                          !.white = new_info.white \/ Unwrap(info).white,
                          !.black = new_info.black \/ Unwrap(info).black]
                 ELSE new_info
         IN  GameMergeLoopKeepFirst(chain, i + 1, Some(merged))

GameMergeResult(r) ==
    [panic |-> r.panic,
     value |-> IF r.panic \/ ~IsSome(r.info) THEN None
               ELSE Some(GameInfoWrite(Unwrap(r.info)))]

game_merge_no_or(existing, operands) ==
    GameMergeResult(GameMergeLoopNoOr(existing \o operands, 1, None))

game_merge_keep_first(existing, operands) ==
    GameMergeResult(GameMergeLoopKeepFirst(existing \o operands, 1, None))

\* game_merge unwrapping the existing value.
game_merge_unwrap_existing(existing, operands) ==
    IF existing = None THEN [panic |-> TRUE, value |-> None]
    ELSE GameMergeResult(GameMergeLoop(existing \o operands, 1, None))

\* game_merge(_key, existing, operands): existing is an Option<bytes>,
\* operands a sequence of bytes; the result is Option<bytes>, or a panic.
game_merge(existing, operands) ==
    GameMergeResult(GameMergeLoop(existing \o operands, 1, None))

\* What get_game_info reads from the key: the engine's full merge of the
\* stored value and the pending operands.
GameValue == game_merge(gameBase, gameOps).value

SubSeqOf(s, i, j) == [k \in 1..(j - i + 1) |-> s[i + k - 1]]

InitGame ==
    /\ gameBase \in {None} \cup {Some(GameInfoWrite(i)) : i \in GameInfos}
    /\ gameOps = <<>>
    /\ gameLog = gameBase

\* merge_game_info(id, info): serialize and append a merge operand.
MergeGameInfo ==
    /\ Len(gameLog) < MaxGameMerges + 1
    /\ \E info \in GameInfos :
        /\ gameOps' = Append(gameOps, GameInfoWrite(info))
        /\ gameLog' = Append(gameLog, GameInfoWrite(info))
    /\ UNCHANGED gameBase
    /\ UNCHANGED notGame

\* The engine folds the stored value and the oldest n operands (a full
\* merge, on compaction or on a read).
GameFullMerge ==
    /\ \E n \in 1..Len(gameOps) :
        LET r == game_merge(gameBase, SubSeqOf(gameOps, 1, n))
        IN  /\ ~r.panic
            /\ gameBase' = r.value
            /\ gameOps' = SubSeqOf(gameOps, n + 1, Len(gameOps))
    /\ UNCHANGED gameLog
    /\ UNCHANGED notGame

\* The engine folds operands i..j into one operand (a partial merge: the
\* operator is registered as associative, so it is called without a value).
GamePartialMerge ==
    /\ \E i \in 1..Len(gameOps) : \E j \in (i + 1)..Len(gameOps) :
        LET r == game_merge(None, SubSeqOf(gameOps, i, j))
        IN  /\ ~r.panic
            /\ gameOps' = SubSeqOf(gameOps, 1, i - 1) \o r.value
                            \o SubSeqOf(gameOps, j + 1, Len(gameOps))
    /\ UNCHANGED <<gameBase, gameLog>>
    /\ UNCHANGED notGame

NextGame ==
    \/ MergeGameInfo
    \/ GameFullMerge
    \/ GamePartialMerge

GameIdle ==
    /\ gameBase = None
    /\ gameOps = <<>>
    /\ gameLog = <<>>

ImportIdle == InitImport

\* --------------------------------------------- personal column family
\* Largest number of merge_personal calls on the key under compaction.
MaxPersonalMerges == 3
\* Largest number of merge_personal calls before a range query.
MaxScanMerges == 2
\* Cap of the recent-games list of a PersonalEntry.
RecentCap == 3
\* AnnoLichess::MAX: the largest value of the one-byte year.
AnnoLichessMAX == 255

PersonalGameIds == {1, 2}
UciCode(u) == IF u = "a" THEN 0 ELSE 1
UciOfCode(c) == IF c = 0 THEN "a" ELSE "b"
UciOrder == <<"a", "b">>

\* PersonalEntry: per move the counter of its stats, and the recent games.
EmptyEntry == [total |-> [u \in Ucis |-> 0], games |-> <<>>]
SingleEntry(u, id) ==
    [total |-> [v \in Ucis |-> IF v = u THEN 1 ELSE 0], games |-> <<<<u, id>>>>]

\* PersonalEntry::extend_from_reader: blocks <<move, counter, k, id_1..id_k>>
\* until the end of the bytes; each block adds its counter to the move and
\* appends its games.  ok is FALSE on bytes that are no sequence of blocks.
RECURSIVE ExtendFromReader(_, _, _)
ExtendFromReader(entry, bytes, i) ==
    IF i > Len(bytes)
    THEN [ok |-> TRUE, entry |-> entry]
    ELSE IF \/ i + 2 > Len(bytes)
            \/ bytes[i] \notin {0, 1}
            \/ i + 2 + bytes[i + 2] > Len(bytes)
    THEN [ok |-> FALSE, entry |-> entry]
    ELSE LET u == UciOfCode(bytes[i])
             k == bytes[i + 2]
             added == [j \in 1..k |-> <<u, bytes[i + 2 + j]>>]
         IN  ExtendFromReader(
                 [total |-> [entry.total EXCEPT ![u] = @ + bytes[i + 1]],
                  games |-> entry.games \o added],
                 bytes, i + 3 + k)

\* Stable sort of the recent games by game id, descending.
RECURSIVE InsertDesc(_, _)
InsertDesc(sorted, g) ==
    IF sorted = <<>> THEN <<g>>
    ELSE IF sorted[1][2] >= g[2]
    THEN <<sorted[1]>> \o InsertDesc(Tail(sorted), g)
    ELSE <<g>> \o sorted
RECURSIVE SortDesc(_)
SortDesc(list) ==
    IF list = <<>> THEN <<>>
    ELSE InsertDesc(SortDesc(SubSeq(list, 1, Len(list) - 1)), list[Len(list)])
Truncated(list) ==
    SubSeq(list, 1, IF Len(list) < RecentCap THEN Len(list) ELSE RecentCap)

\* PersonalEntry::write: sort and truncate the recent games, then one block
\* per move that has a counter or a game.
RECURSIVE WriteBlocks(_, _, _)
WriteBlocks(entry, kept, n) ==
    IF n > Len(UciOrder) THEN <<>>
    ELSE LET u == UciOrder[n]
             mine == SelectSeq(kept, LAMBDA g : g[1] = u)
             ids == [j \in 1..Len(mine) |-> mine[j][2]]
         IN  (IF entry.total[u] = 0 /\ mine = <<>> THEN <<>>
              ELSE <<UciCode(u), entry.total[u], Len(mine)>> \o ids)
             \o WriteBlocks(entry, kept, n + 1)
PersonalEntryWrite(entry) ==
    WriteBlocks(entry, Truncated(SortDesc(entry.games)), 1)

PersonalEntryReadOk(bytes) == ExtendFromReader(EmptyEntry, bytes, 1).ok
PersonalEntryRead(bytes) == ExtendFromReader(EmptyEntry, bytes, 1).entry

\* The loop of personal_merge over existing.into_iter().chain(operands).
RECURSIVE PersonalMergeLoop(_, _, _)
PersonalMergeLoop(chain, i, entry) ==
    IF i > Len(chain)
    THEN [panic |-> FALSE, entry |-> entry]
    ELSE LET r == ExtendFromReader(entry, chain[i], 1)
         IN  IF ~r.ok THEN [panic |-> TRUE, entry |-> entry]
             ELSE PersonalMergeLoop(chain, i + 1, r.entry)

PersonalMergeResult(r) ==
    [panic |-> r.panic,
     value |-> IF r.panic THEN None ELSE Some(PersonalEntryWrite(r.entry))]

\* personal_merge folding the operands only, the existing value left out.
personal_merge_drop_existing(existing, operands) ==
    PersonalMergeResult(PersonalMergeLoop(operands, 1, EmptyEntry))

\* personal_merge(_key, existing, operands): always Some(bytes), or a panic.
personal_merge(existing, operands) ==
    PersonalMergeResult(PersonalMergeLoop(existing \o operands, 1, EmptyEntry))

\* Keys: the prefix bytes (player, color, variant, position) and the year byte.
PersonalKeyPrefixes == {<<0, 1>>, <<1, 0>>}
PersonalYears == {0, 1, AnnoLichessMAX}
with_year(prefix, year) == Append(prefix, year)
PersonalKeys == {with_year(q, y) : q \in PersonalKeyPrefixes, y \in PersonalYears}
KeyPrefixOf(k) == SubSeq(k, 1, Len(k) - 1)
KeyYearOf(k) == k[Len(k)]

\* Byte-wise lexicographic order of keys, as the engine compares them.
RECURSIVE BytesLess(_, _, _)
BytesLess(a, b, i) ==
    IF i > Len(b) THEN FALSE
    ELSE IF i > Len(a) THEN TRUE
    ELSE IF a[i] # b[i] THEN a[i] < b[i]
    ELSE BytesLess(a, b, i + 1)
KeyLess(a, b) == BytesLess(a, b, 1)

\* What a read of a key returns: nothing for a key never written, else the
\* engine's full merge of the stored value and the pending operands.
PersonalValueIn(store, k) ==
    IF store[k].base = None /\ store[k].ops = <<>> THEN None
    ELSE personal_merge(store[k].base, store[k].ops).value
PersonalValue(k) == PersonalValueIn(personal, k)

\* The keys the iterator of get_personal yields, ascending: from
\* key.with_year(since) up to the upper bound key.with_year(MAX), which
\* set_iterate_upper_bound excludes.
IteratorKeys(store, prefix, since) ==
    {k \in PersonalKeys :
        /\ IsSome(PersonalValueIn(store, k))
        /\ ~KeyLess(k, with_year(prefix, since))
        /\ KeyLess(k, with_year(prefix, AnnoLichessMAX))}

MinKey(keys) == CHOOSE k \in keys : \A o \in keys : o = k \/ KeyLess(k, o)

RECURSIVE ScanLoop(_, _, _)
ScanLoop(store, keys, entry) ==
    IF keys = {} THEN entry
    ELSE LET k == MinKey(keys)
         IN  ScanLoop(store, keys \ {k},
                      ExtendFromReader(entry, Unwrap(PersonalValueIn(store, k)), 1).entry)

\* get_personal(key, since)
get_personal(store, prefix, since) ==
    ScanLoop(store, IteratorKeys(store, prefix, since), EmptyEntry)

PersonalOperands ==
    {PersonalEntryWrite(SingleEntry(u, id)) : u \in Ucis, id \in PersonalGameIds}

\* The key the compaction machine works on.
CompactedKey == <<0, 1, 0>>

EmptyStore == [k \in PersonalKeys |-> [base |-> None, ops |-> <<>>]]

InitPersonal ==
    /\ \E b \in {None} \cup {Some(o) : o \in PersonalOperands} :
        /\ personal = [EmptyStore EXCEPT ![CompactedKey].base = b]
        /\ personalLog = [k \in PersonalKeys |-> IF k = CompactedKey THEN b ELSE <<>>]
    /\ scan = None

InitScan ==
    /\ personal = EmptyStore
    /\ personalLog = [k \in PersonalKeys |-> <<>>]
    /\ scan = None

PersonalIdle == InitScan

\* merge_personal(key, entry): serialize and append a merge operand.
MergePersonalAt(k, o) ==
    /\ personal' = [personal EXCEPT ![k].ops = Append(@, o)]
    /\ personalLog' = [personalLog EXCEPT ![k] = Append(@, o)]
    /\ UNCHANGED scan
    /\ UNCHANGED notPersonal

MergePersonalCompacted ==
    /\ Len(personalLog[CompactedKey]) < MaxPersonalMerges + 1
    /\ \E o \in PersonalOperands : MergePersonalAt(CompactedKey, o)

LogTotal == Len(personalLog[<<0, 1, 0>>]) + Len(personalLog[<<0, 1, 1>>])
          + Len(personalLog[<<0, 1, AnnoLichessMAX>>])
          + Len(personalLog[<<1, 0, 0>>]) + Len(personalLog[<<1, 0, 1>>])
          + Len(personalLog[<<1, 0, AnnoLichessMAX>>])

MergePersonalAny ==
    /\ LogTotal < MaxScanMerges
    /\ \E k \in PersonalKeys : \E o \in PersonalOperands : MergePersonalAt(k, o)

\* The engine folds the stored value and the oldest n operands of the key.
PersonalFullMerge ==
    /\ \E n \in 1..Len(personal[CompactedKey].ops) :
        LET ops == personal[CompactedKey].ops
            r == personal_merge(personal[CompactedKey].base, SubSeqOf(ops, 1, n))
        IN  /\ ~r.panic
            /\ personal' = [personal EXCEPT
                   ![CompactedKey] = [base |-> r.value,
                                      ops |-> SubSeqOf(ops, n + 1, Len(ops))]]
    /\ UNCHANGED <<personalLog, scan>>
    /\ UNCHANGED notPersonal

\* The engine folds operands i..j of the key into one operand.
PersonalPartialMerge ==
    /\ \E i \in 1..Len(personal[CompactedKey].ops) :
       \E j \in (i + 1)..Len(personal[CompactedKey].ops) :
        LET ops == personal[CompactedKey].ops
            r == personal_merge(None, SubSeqOf(ops, i, j))
        IN  /\ ~r.panic
            /\ personal' = [personal EXCEPT
                   ![CompactedKey].ops = SubSeqOf(ops, 1, i - 1) \o r.value
                                           \o SubSeqOf(ops, j + 1, Len(ops))]
    /\ UNCHANGED <<personalLog, scan>>
    /\ UNCHANGED notPersonal

\* A personal query for (prefix, since, until): get_personal takes the prefix
\* and since; it has no parameter for until.
PersonalQuery ==
    /\ \E prefix \in PersonalKeyPrefixes, since \in PersonalYears, until \in PersonalYears :
        scan' = Some([prefix |-> prefix, since |-> since, until |-> until,
                      entry |-> get_personal(personal, prefix, since)])
    /\ UNCHANGED <<personal, personalLog>>
    /\ UNCHANGED notPersonal

NextPersonal ==
    \/ MergePersonalCompacted
    \/ PersonalFullMerge
    \/ PersonalPartialMerge

NextScan ==
    \/ MergePersonalAny
    \/ PersonalQuery

\* ------------------------------- the merge operators on arbitrary bytes
\* Longest operand list handed to an operator.
MaxFnOperands == 2

\* Values the engine may hand to an operator: encoded GameInfo records,
\* encoded PersonalEntry values, and bytes that are neither (<<3>>), empty
\* bytes and a PersonalEntry block cut short (<<0, 1, 1>>).
FnBytes ==
    {GameInfoWrite(i) : i \in GameInfos}
        \cup PersonalOperands
        \cup {<<>>, <<3>>, <<0, 1, 1>>}

FnOperandLists == UNION {[1..n -> FnBytes] : n \in 0..MaxFnOperands}

InitFn ==
    /\ fnExisting \in {None} \cup {Some(b) : b \in FnBytes}
    /\ fnOperands \in FnOperandLists
    /\ fnGame = None
    /\ fnPersonal = None

FnIdle ==
    /\ fnExisting = None
    /\ fnOperands = <<>>
    /\ fnGame = None
    /\ fnPersonal = None

\* The engine calls game_merge(key, existing, operands).
ApplyGameMerge ==
    /\ fnGame = None
    /\ fnGame' = Some(game_merge(fnExisting, fnOperands))
    /\ UNCHANGED <<fnExisting, fnOperands, fnPersonal>>
    /\ UNCHANGED notFn

\* The engine calls personal_merge(key, existing, operands).
ApplyPersonalMerge ==
    /\ fnPersonal = None
    /\ fnPersonal' = Some(personal_merge(fnExisting, fnOperands))
    /\ UNCHANGED <<fnExisting, fnOperands, fnGame>>
    /\ UNCHANGED notFn

NextFn ==
    \/ ApplyGameMerge
    \/ ApplyPersonalMerge

\* ------------------------------------------------ personal query stream
\* Largest number of snapshots a stream computes on timer ticks.
MaxSnapshots == 3
\* Largest total the indexer brings the queried keys to.
MaxTotal == 2

\* indexing.changed() completes at once: a value not yet seen, or the sender
\* dropped.
ChangedReady == chan \in {"changed", "closed"}

\* The value of the select! block by the branch that completed:
\*   _ = indexing.changed() => true,  _ = sleep(..) => false
SelectDoneNever(branch) == FALSE
SelectDone(branch) == branch = "changed"

\* Duration::from_millis(if first { 0 } else { 1000 })
SleepMillisAlwaysTick(first) == 1000
SleepMillis(first) == IF first THEN 0 ELSE 1000

\* dedup_by_key(|res| res.total.total()): an item passes unless its key is
\* the key of the item before it.
Dedup(out, key) ==
    IF out # <<>> /\ out[Len(out)] = key THEN out ELSE Append(out, key)

\* The closure's yield with the dedup_by_key adapter taken off the stream.
YieldNoDedup(branch) ==
    /\ stDone' = SelectDone(branch)
    /\ chan' = IF branch = "changed" /\ chan = "changed" THEN "seen" ELSE chan
    /\ computed' = Append(computed, total)
    /\ emitted' = Append(emitted, total)
    /\ streamPc' = "idle"
    /\ timerFired' = FALSE

\* The closure ending the stream as soon as changed() completes, without
\* running the query again.
YieldEndOnChanged(branch) ==
    /\ stDone' = SelectDone(branch)
    /\ chan' = IF branch = "changed" /\ chan = "changed" THEN "seen" ELSE chan
    /\ computed' = IF branch = "changed" THEN computed ELSE Append(computed, total)
    /\ emitted' = IF branch = "changed" THEN emitted ELSE Dedup(emitted, total)
    /\ streamPc' = "idle"
    /\ timerFired' = FALSE

\* The rest of the closure once select! has completed with `branch`:
\* state.done is set, the query runs and the snapshot is yielded through
\* the dedup_by_key adapter.
Yield(branch) ==
    /\ stDone' = SelectDone(branch)
    /\ chan' = IF branch = "changed" /\ chan = "changed" THEN "seen" ELSE chan
    /\ computed' = Append(computed, total)
    /\ emitted' = Dedup(emitted, total)
    /\ streamPc' = "idle"
    /\ timerFired' = FALSE

InitStream ==
    /\ indexing \in {None, Some("receiver")}
    /\ chan = "open"
    /\ stFirst = TRUE
    /\ stDone = FALSE
    /\ streamPc = "idle"
    /\ timerFired = FALSE
    /\ sleepMs = None
    /\ total \in 0..MaxTotal
    /\ doneTotal = None
    /\ computed = <<>>
    /\ emitted = <<>>

StreamIdle ==
    /\ indexing = None
    /\ chan = "open"
    /\ stFirst = TRUE
    /\ stDone = FALSE
    /\ streamPc = "idle"
    /\ timerFired = FALSE
    /\ sleepMs = None
    /\ total = 0
    /\ doneTotal = None
    /\ computed = <<>>
    /\ emitted = <<>>

\* The stream is polled and state.done is set: return None.
StreamEnd ==
    /\ streamPc = "idle"
    /\ stDone
    /\ streamPc' = "ended"
    /\ UNCHANGED <<indexing, chan, stFirst, stDone, timerFired, sleepMs, total,
                   computed, emitted>>
    /\ UNCHANGED doneTotal
    /\ UNCHANGED notStream

\* The stream is polled with no receiver: done is set, the snapshot yielded.
StreamPollNoIndexing ==
    /\ streamPc = "idle"
    /\ ~stDone
    /\ indexing = None
    /\ stFirst' = FALSE
    /\ stDone' = TRUE
    /\ computed' = Append(computed, total)
    /\ emitted' = Dedup(emitted, total)
    /\ UNCHANGED <<indexing, chan, streamPc, timerFired, sleepMs, total>>
    /\ UNCHANGED doneTotal
    /\ UNCHANGED notStream

\* The stream is polled with a receiver and a branch of select! completes
\* on its first poll: changed() when a change is pending, the sleep of 0 ms
\* of the first iteration; with both ready select! takes either.
StreamPollReady ==
    /\ streamPc = "idle"
    /\ ~stDone
    /\ indexing # None
    /\ stFirst' = FALSE
    /\ sleepMs' = Some(SleepMillis(stFirst))
    /\ \E branch \in {"changed", "sleep"} :
        /\ branch = "changed" => ChangedReady
        /\ branch = "sleep" => stFirst
        /\ Yield(branch)
    /\ UNCHANGED <<indexing, total>>
    /\ UNCHANGED doneTotal
    /\ UNCHANGED notStream

\* The stream is polled with a receiver and no branch completes: the task
\* is suspended in select!.
StreamPollPending ==
    /\ streamPc = "idle"
    /\ ~stDone
    /\ indexing # None
    /\ ~ChangedReady
    /\ stFirst' = FALSE
    /\ sleepMs' = Some(SleepMillis(stFirst))
    /\ streamPc' = "select"
    /\ timerFired' = FALSE
    /\ UNCHANGED <<indexing, chan, stDone, total, computed, emitted>>
    /\ UNCHANGED doneTotal
    /\ UNCHANGED notStream

\* The sleep of the select! in progress elapses.
TimerFire ==
    /\ streamPc = "select"
    /\ ~timerFired
    /\ Len(computed) < MaxSnapshots
    /\ timerFired' = TRUE
    /\ UNCHANGED <<indexing, chan, stFirst, stDone, streamPc, sleepMs, total,
                   computed, emitted>>
    /\ UNCHANGED doneTotal
    /\ UNCHANGED notStream

\* The suspended task is woken and select! completes with a ready branch.
StreamWake ==
    /\ streamPc = "select"
    /\ \E branch \in {"changed", "sleep"} :
        /\ branch = "changed" => ChangedReady
        /\ branch = "sleep" => timerFired
        /\ Yield(branch)
    /\ UNCHANGED <<indexing, stFirst, sleepMs, total>>
    /\ UNCHANGED doneTotal
    /\ UNCHANGED notStream

\* The indexer merges one more game into the queried keys.
IndexerMerge ==
    /\ total < MaxTotal
    /\ total' = total + 1
    /\ UNCHANGED <<indexing, chan, stFirst, stDone, streamPc, timerFired, sleepMs,
                   computed, emitted>>
    /\ UNCHANGED doneTotal
    /\ UNCHANGED notStream

\* The indexer signals done: it sends on the watch channel or drops the sender.
IndexerDone ==
    /\ indexing # None
    /\ chan = "open"
    /\ chan' \in {"changed", "closed"}
    /\ UNCHANGED <<indexing, stFirst, stDone, streamPc, timerFired, sleepMs, total,
                   computed, emitted>>
    /\ doneTotal' = Some(total)
    /\ UNCHANGED notStream

StreamStep ==
    \/ StreamEnd
    \/ StreamPollNoIndexing
    \/ StreamPollReady
    \/ StreamPollPending
    \/ StreamWake

NextStream ==
    \/ StreamEnd
    \/ StreamPollNoIndexing
    \/ StreamPollReady
    \/ StreamPollPending
    \/ StreamWake
    \/ TimerFire
    \/ IndexerMerge
    \/ IndexerDone

\* ------------------------------------------------ moves of a response
\* Largest number of moves of a folded entry.
MaxRows == 13
\* moves.truncate(query.limits.moves.unwrap_or(12))
DefaultMoves == 12

\* stats.total() of a move: 1 or 2 games.
RowTotals == {1, 2}
\* The moves of an entry with the totals f: each move has its uci (numbered
\* by the entry's order) and its total.
Rows(f) == [i \in DOMAIN f |-> [uci |-> i, total |-> f[i]]]
\* limits.moves as the request gives it.
MovesLimits == {None, Some(0), Some(2)}

\* sort_by_key(|row| Reverse(row.stats.total())): a stable sort, so a row goes
\* behind the rows of the same total that precede it.
RECURSIVE InsertRow(_, _)
InsertRow(sorted, row) ==
    IF sorted = <<>> THEN <<row>>
    ELSE IF sorted[1].total >= row.total
    THEN <<sorted[1]>> \o InsertRow(Tail(sorted), row)
    ELSE <<row>> \o sorted
RECURSIVE sort_by_total(_)
sort_by_total(rows) ==
    IF rows = <<>> THEN <<>>
    ELSE InsertRow(sort_by_total(SubSeq(rows, 1, Len(rows) - 1)), rows[Len(rows)])

\* Vec::truncate(n) and Iterator::take(n).
truncate(rows, n) == IF Len(rows) <= n THEN rows ELSE SubSeq(rows, 1, n)

\* PersonalEntry::prepare(pos, filter): the moves sorted by total, descending.
\* It is not handed the limits.
prepare(rows) == sort_by_total(rows)

\* limits.moves.unwrap_or(default)
unwrap_or(limit, default) == IF IsSome(limit) THEN Unwrap(limit) ELSE default

\* master: moves.sort_by_key(..); moves.truncate(limits.moves.unwrap_or(12))
master_moves(rows, limit) ==
    truncate(sort_by_total(rows), unwrap_or(limit, DefaultMoves))

\* personal: filtered.moves.into_iter().take(limits.moves.unwrap_or(usize::MAX));
\* usize::MAX exceeds every length, so then take() passes every move.
personal_moves(rows, limit) ==
    IF IsSome(limit) THEN truncate(prepare(rows), Unwrap(limit))
    ELSE prepare(rows)

InitQuery ==
    /\ \E n \in 0..MaxRows : \E f \in [1..n -> RowTotals] : qRows = Rows(f)
    /\ qLimit \in MovesLimits
    /\ qResponse = None

QueryIdle ==
    /\ qRows = <<>>
    /\ qLimit = None
    /\ qResponse = None

\* GET /master
MasterQuery ==
    /\ qResponse' = Some([handler |-> "master", moves |-> master_moves(qRows, qLimit)])
    /\ UNCHANGED <<qRows, qLimit>>
    /\ UNCHANGED notQuery

\* GET /personal: one snapshot of the stream
PersonalSnapshot ==
    /\ qResponse' = Some([handler |-> "personal",
                          moves |-> personal_moves(qRows, qLimit)])
    /\ UNCHANGED <<qRows, qLimit>>
    /\ UNCHANGED notQuery

NextQuery ==
    \/ MasterQuery
    \/ PersonalSnapshot

\* ------------------------------------------------------------ varint codec
\* Largest number of one bits of a u64 handed to write_uint (the value with
\* all 64 bits set is handed to it as well).
MaxSetBits == 2
\* Longest byte sequence handed to read_uint.
MaxUintBytes == 11

\* A u64 is the set of the positions of its one bits, so that shifts and
\* ors are exact at 64 bits.
U64Bits == 0..63
RECURSIVE SetsUpTo(_)
SetsUpTo(k) ==
    IF k = 0 THEN {{}}
    ELSE LET smaller == SetsUpTo(k - 1)
         IN  smaller \cup {x \cup {b} : x \in smaller, b \in U64Bits}
UintValues == SetsUpTo(MaxSetBits) \cup {U64Bits}

\* Continuation bytes 0x80 and 0xff; last bytes 0x00, 0x01, 0x02, 0x7f, or a
\* continuation byte the input ends on.
ContinuationBytes == {128, 255}
LastBytes == {0, 1, 2, 127, 128}
UintByteSeqs ==
    UNION {{Append(f, l) : f \in [1..(n - 1) -> ContinuationBytes], l \in LastBytes}
           : n \in 1..MaxUintBytes}

\* u64::from(byte): the one bits of a byte.
BitsOfByte(byte) == {i \in 0..7 : (byte \div (2 ^ i)) % 2 = 1}
\* n as u8: the low eight bits as a byte.
RECURSIVE ByteOfBits(_)
ByteOfBits(bits) ==
    IF bits = {} THEN 0
    ELSE LET b == CHOOSE x \in bits : TRUE
         IN  (IF b <= 7 THEN 2 ^ b ELSE 0) + ByteOfBits(bits \ {b})

\* u64::checked_shl(shift): None if shift >= 64 (63 for the narrow variant);
\* otherwise the shifted value, bits shifted past bit 63 lost.
checked_shl_narrow(bits, shift) ==
    IF shift >= 63 THEN None
    ELSE Some({b + shift : b \in bits} \cap U64Bits)
checked_shl(bits, shift) ==
    IF shift >= 64 THEN None
    ELSE Some({b + shift : b \in bits} \cap U64Bits)

\* n >>= 7
Shr7(bits) == {b - 7 : b \in {x \in bits : x >= 7}}

\* read_uint from byte i of the reader on: the error kind, the value and the
\* number of bytes consumed.
RECURSIVE ReadUintLoop(_, _, _, _)
ReadUintLoop(bytes, i, shift, n) ==
    IF i > Len(bytes)
    THEN [err |-> "UnexpectedEof", value |-> {}, read |-> i - 1]
    ELSE LET byte == bytes[i]
             shifted == checked_shl(BitsOfByte(byte % 128), shift)
         IN  IF shifted = None
             THEN [err |-> "InvalidData", value |-> {}, read |-> i]
             ELSE IF byte \div 128 = 0
             THEN [err |-> "none", value |-> n \cup Unwrap(shifted), read |-> i]
             ELSE ReadUintLoop(bytes, i + 1, shift + 7, n \cup Unwrap(shifted))

read_uint(bytes) == ReadUintLoop(bytes, 1, 0, {})

\* write_uint: the bytes written.
RECURSIVE write_uint(_)
write_uint(n) ==
    IF \E b \in n : b >= 7
    THEN <<(ByteOfBits(n) % 128) + 128>> \o write_uint(Shr7(n))
    ELSE <<ByteOfBits(n)>>

UintIdle ==
    /\ uintN = {}
    /\ uintBytes = <<>>
    /\ uintWritten = None
    /\ uintRead = None

InitUintRoundtrip ==
    /\ uintN \in UintValues
    /\ uintBytes = <<>>
    /\ uintWritten = None
    /\ uintRead = None

InitUintRead ==
    /\ uintN = {}
    /\ uintBytes \in UintByteSeqs
    /\ uintWritten = None
    /\ uintRead = None

\* write_uint(&mut writer, n)
WriteUint ==
    /\ uintWritten = None
    /\ uintWritten' = Some(write_uint(uintN))
    /\ UNCHANGED <<uintN, uintBytes, uintRead>>
    /\ UNCHANGED notUint

\* read_uint on a cursor over the bytes written
ReadWritten ==
    /\ uintWritten # None
    /\ uintRead = None
    /\ uintRead' = Some(read_uint(Unwrap(uintWritten)))
    /\ UNCHANGED <<uintN, uintBytes, uintWritten>>
    /\ UNCHANGED notUint

\* read_uint on a cursor over given bytes
ReadUint ==
    /\ uintRead = None
    /\ uintRead' = Some(read_uint(uintBytes))
    /\ UNCHANGED <<uintN, uintBytes, uintWritten>>
    /\ UNCHANGED notUint

NextUintRoundtrip ==
    \/ WriteUint
    \/ ReadWritten

NextUintRead == ReadUint

\* ------------------------------------------------------- specifications
InitSpecImport ==
    /\ InitImport
    /\ GameIdle /\ PersonalIdle /\ FnIdle /\ StreamIdle /\ QueryIdle /\ UintIdle

SpecImport == InitSpecImport /\ [][NextImport]_vars

InitSpecGame ==
    /\ InitGame
    /\ ImportIdle /\ PersonalIdle /\ FnIdle /\ StreamIdle /\ QueryIdle /\ UintIdle

SpecGame == InitSpecGame /\ [][NextGame]_vars

InitSpecPersonal ==
    /\ InitPersonal
    /\ ImportIdle /\ GameIdle /\ FnIdle /\ StreamIdle /\ QueryIdle /\ UintIdle

SpecPersonal == InitSpecPersonal /\ [][NextPersonal]_vars

InitSpecScan ==
    /\ InitScan
    /\ ImportIdle /\ GameIdle /\ FnIdle /\ StreamIdle /\ QueryIdle /\ UintIdle

SpecScan == InitSpecScan /\ [][NextScan]_vars

InitSpecMergeFn ==
    /\ InitFn
    /\ ImportIdle /\ GameIdle /\ PersonalIdle /\ StreamIdle /\ QueryIdle /\ UintIdle

SpecMergeFn == InitSpecMergeFn /\ [][NextFn]_vars

InitSpecStream ==
    /\ InitStream
    /\ ImportIdle /\ GameIdle /\ PersonalIdle /\ FnIdle /\ QueryIdle /\ UintIdle

SpecStream == InitSpecStream /\ [][NextStream]_vars

\* The runtime polls a task that is ready to run, and the response body
\* polls the stream for its next item as long as the stream has not ended.
FairSpecStream == SpecStream /\ WF_vars(StreamStep)

\* And a sleep that was armed elapses.
FairSpecStreamTimer == FairSpecStream /\ WF_vars(TimerFire)

InitSpecQuery ==
    /\ InitQuery
    /\ ImportIdle /\ GameIdle /\ PersonalIdle /\ FnIdle /\ StreamIdle /\ UintIdle

SpecQuery == InitSpecQuery /\ [][NextQuery]_vars

InitSpecUintRoundtrip ==
    /\ InitUintRoundtrip
    /\ ImportIdle /\ GameIdle /\ PersonalIdle /\ FnIdle /\ StreamIdle /\ QueryIdle

SpecUintRoundtrip == InitSpecUintRoundtrip /\ [][NextUintRoundtrip]_vars

InitSpecUintRead ==
    /\ InitUintRead
    /\ ImportIdle /\ GameIdle /\ PersonalIdle /\ FnIdle /\ StreamIdle /\ QueryIdle

SpecUintRead == InitSpecUintRead /\ [][NextUintRead]_vars

\* ---------------------------------------------------------------- claims

\* Handlers between the duplicate check and the batch commit.
InCritical == {p \in Procs : pc[p] \in {"walk", "write"}}

\* C1: at most one import call at a time is between its duplicate check
\* (has_master_game) and its batch commit (batch.write).
MutualExclusion == Cardinality(InCritical) <= 1

\* A handler starts a call in this step.
Starts(p) == pc[p] = "idle" /\ pc'[p] # "idle"

\* C2 as stated: a call carrying the id of a game already imported fails
\* with DuplicateGame and leaves the store as it was.
ReimportFailsDuplicate ==
    [][\A p \in Procs :
        (Starts(p) /\ IsSome(games[body'[p].id]))
            => /\ pc'[p] = "done"
               /\ result'[p] = "DuplicateGame"
               /\ games' = games
               /\ master' = master]_vars

\* C2 amended: a call carrying the id of a game already imported fails, with
\* RejectedImport when its own ratings fail the rating check and with
\* DuplicateGame otherwise, and leaves the store as it was.
ReimportFails ==
    [][\A p \in Procs :
        (Starts(p) /\ IsSome(games[body'[p].id]))
            => /\ pc'[p] = "done"
               /\ result'[p] =
                    IF RatingTooLow(body'[p].white, body'[p].black)
                    THEN "RejectedImport" ELSE "DuplicateGame"
               /\ games' = games
               /\ master' = master]_vars

\* C2 witness: one call imported X, a later call carrying X got DuplicateGame
\* and the record stored under X is the first call's game.
ReimportWitness ==
    \E p, q \in Procs :
        /\ p # q
        /\ result[p] = "Ok"
        /\ result[q] = "DuplicateGame"
        /\ body[q].id = body[p].id
        /\ body[q].moves # body[p].moves
        /\ games[body[p].id] = Some(Game(body[p]))

\* C3: a game is rejected with RejectedImport if and only if
\* (white + black) / 2 < 2200.
RejectedIffAverageLow ==
    \A p \in Procs :
        pc[p] # "idle" =>
            ((result[p] = "RejectedImport")
                <=> ((body[p].white + body[p].black) \div 2 < MinAverageRating))

\* The flags and scalars of the value a read of the game key returns.
GameStored == GameInfoRead(Unwrap(GameValue))
LogInfo(i) == GameInfoRead(gameLog[i])

\* C4: the indexed.white flag of the stored result is the OR of indexed.white
\* over the existing value and all operands merged so far, and likewise
\* indexed.black.
GameMergeMonotone ==
    gameLog # <<>> =>
        /\ IsSome(GameValue)
        /\ GameStored.white = (\E i \in 1..Len(gameLog) : LogInfo(i).white)
        /\ GameStored.black = (\E i \in 1..Len(gameLog) : LogInfo(i).black)

\* C4 witness: three values merged and folded by the engine, the stored flag
\* is set although the latest operand does not carry it.
GameMergeMonotoneWitness ==
    /\ Len(gameLog) >= 3
    /\ gameOps = <<>>
    /\ IsSome(gameBase)
    /\ GameStored.white
    /\ ~LogInfo(Len(gameLog)).white
    /\ ~GameStored.black

\* C5: whatever grouping the engine folded the operands in, the stored value
\* is the one a single game_merge over all of them gives, and its scalar
\* fields are those of the last operand.
GameMergeAssociative ==
    /\ GameValue = game_merge(None, gameLog).value
    /\ gameLog # <<>> => GameStored.scalars = LogInfo(Len(gameLog)).scalars

\* C5 witness: an existing value and three operands [a, b, c]; the engine
\* folded b and c into one operand while a is still pending.
GameMergeAssociativeWitness ==
    /\ Len(gameLog) = 4
    /\ gameBase = Some(gameLog[1])
    /\ Len(gameOps) = 2
    /\ gameOps[1] = gameLog[2]
    /\ gameOps[2] # gameLog[3]
    /\ gameOps[2] # gameLog[4]
    /\ LogInfo(1).scalars # LogInfo(4).scalars

\* Sum of a move's counters over the values written to a key.
RECURSIVE SumTotals(_, _, _)
SumTotals(log, u, i) ==
    IF i > Len(log) THEN 0
    ELSE PersonalEntryRead(log[i]).total[u] + SumTotals(log, u, i + 1)

RECURSIVE CountGames(_, _)
CountGames(log, i) ==
    IF i > Len(log) THEN 0
    ELSE Len(PersonalEntryRead(log[i]).games) + CountGames(log, i + 1)

CompactedLog == personalLog[CompactedKey]
CompactedValue == PersonalValue(CompactedKey)

\* C6: whatever grouping the engine folded the operands in, every move's
\* counter in the stored value is the sum of that move's counters over the
\* existing value and all operands; and when the recent games of all of them
\* together do not exceed the cap, the stored value is the one a single
\* personal_merge over all of them gives.
PersonalMergeAssociative ==
    CompactedLog # <<>> =>
        /\ IsSome(CompactedValue)
        /\ PersonalEntryReadOk(Unwrap(CompactedValue))
        /\ \A u \in Ucis :
            PersonalEntryRead(Unwrap(CompactedValue)).total[u]
                = SumTotals(CompactedLog, u, 1)
        /\ CountGames(CompactedLog, 1) <= RecentCap
            => CompactedValue = personal_merge(None, CompactedLog).value

\* C6 witness: operands A, B, C of two different moves; the engine folded A
\* and B into the stored value and C is pending.
PersonalMergeAssociativeWitness ==
    /\ Len(CompactedLog) = 3
    /\ personal[CompactedKey].ops = <<CompactedLog[3]>>
    /\ personal[CompactedKey].base
         = personal_merge(None, SubSeqOf(CompactedLog, 1, 2)).value
    /\ CompactedLog[1] # CompactedLog[2]
    /\ PersonalEntryRead(Unwrap(CompactedValue)).total["a"] = 2
    /\ PersonalEntryRead(Unwrap(CompactedValue)).total["b"] = 1

\* C7: neither merge operator panics, whatever bytes it is handed.
MergeNeverPanics ==
    /\ IsSome(fnGame) => ~Unwrap(fnGame).panic
    /\ IsSome(fnPersonal) => ~Unwrap(fnPersonal).panic

AllGameInfo(ops) == \A i \in 1..Len(ops) : GameInfoReadOk(ops[i])
AllPersonal(ops) == \A i \in 1..Len(ops) : PersonalEntryReadOk(ops[i])

\* C8: with no operands, game_merge returns nothing for a missing value and
\* a value that decodes to the existing record otherwise; personal_merge
\* returns an entry without moves and games for a missing value and a value
\* that decodes to the existing entry otherwise.  With no existing value,
\* the result is the fold of the operands alone.
MergeEmptyAndMissing ==
    /\ (IsSome(fnGame) /\ fnOperands = <<>> /\ fnExisting = None)
        => Unwrap(fnGame) = [panic |-> FALSE, value |-> None]
    /\ (IsSome(fnGame) /\ fnOperands = <<>> /\ IsSome(fnExisting)
            /\ GameInfoReadOk(Unwrap(fnExisting)))
        => /\ ~Unwrap(fnGame).panic
           /\ IsSome(Unwrap(fnGame).value)
           /\ GameInfoRead(Unwrap(Unwrap(fnGame).value))
                = GameInfoRead(Unwrap(fnExisting))
    /\ (IsSome(fnGame) /\ fnOperands # <<>> /\ fnExisting = None
            /\ AllGameInfo(fnOperands))
        => /\ ~Unwrap(fnGame).panic
           /\ IsSome(Unwrap(fnGame).value)
           /\ LET got == GameInfoRead(Unwrap(Unwrap(fnGame).value))
              IN  /\ got.scalars = GameInfoRead(fnOperands[Len(fnOperands)]).scalars
                  /\ got.white = (\E i \in 1..Len(fnOperands) :
                                    GameInfoRead(fnOperands[i]).white)
                  /\ got.black = (\E i \in 1..Len(fnOperands) :
                                    GameInfoRead(fnOperands[i]).black)
    /\ (IsSome(fnPersonal) /\ fnOperands = <<>> /\ fnExisting = None)
        => /\ ~Unwrap(fnPersonal).panic
           /\ IsSome(Unwrap(fnPersonal).value)
           /\ PersonalEntryRead(Unwrap(Unwrap(fnPersonal).value)) = EmptyEntry
    /\ (IsSome(fnPersonal) /\ fnOperands = <<>> /\ IsSome(fnExisting)
            /\ PersonalEntryReadOk(Unwrap(fnExisting)))
        => /\ ~Unwrap(fnPersonal).panic
           /\ IsSome(Unwrap(fnPersonal).value)
           /\ PersonalEntryRead(Unwrap(Unwrap(fnPersonal).value))
                = PersonalEntryRead(Unwrap(fnExisting))
    /\ (IsSome(fnPersonal) /\ fnOperands # <<>> /\ fnExisting = None
            /\ AllPersonal(fnOperands))
        => /\ ~Unwrap(fnPersonal).panic
           /\ IsSome(Unwrap(fnPersonal).value)
           /\ \A u \in Ucis :
                PersonalEntryRead(Unwrap(Unwrap(fnPersonal).value)).total[u]
                    = SumTotals(fnOperands, u, 1)

\* C8 witness: both operators were called with no existing value and no
\* operands; game_merge returned nothing, personal_merge an empty value.
MergeEmptyAndMissingWitness ==
    /\ fnExisting = None
    /\ fnOperands = <<>>
    /\ fnGame = Some([panic |-> FALSE, value |-> None])
    /\ fnPersonal = Some([panic |-> FALSE, value |-> Some(<<>>)])

\* Sum of a move's counters over the keys of a prefix whose year lies in
\* since..until.
RECURSIVE SumInRange(_, _, _)
SumInRange(keys, u, acc) ==
    IF keys = {} THEN acc
    ELSE LET k == CHOOSE k \in keys : TRUE
         IN  SumInRange(keys \ {k}, u, acc + SumTotals(personalLog[k], u, 1))

KeysInRange(prefix, since, until) ==
    {k \in PersonalKeys :
        /\ KeyPrefixOf(k) = prefix
        /\ since <= KeyYearOf(k)
        /\ KeyYearOf(k) <= until}

\* C9: a range query for (prefix, since, until) aggregates exactly the
\* entries stored under the prefix with a year y, since <= y <= until.
ScanExact ==
    [][scan' # scan =>
        \A u \in Ucis :
            Unwrap(scan').entry.total[u]
                = SumInRange(KeysInRange(Unwrap(scan').prefix, Unwrap(scan').since,
                                         Unwrap(scan').until), u, 0)]_vars

\* C10: once changed() has completed (a change or a dropped sender), the
\* stream computes the snapshot of that iteration and no snapshot after it,
\* and ends at its next poll; and a stream whose indexer has signalled done
\* eventually ends.
StreamEndsOnDone ==
    /\ [][/\ (~stDone /\ stDone') => Len(computed') = Len(computed) + 1
          /\ stDone => computed' = computed
          /\ (stDone /\ streamPc = "idle" /\ streamVars' # streamVars
                /\ total' = total)
                => streamPc' = "ended"]_vars
    /\ (indexing # None /\ chan # "open") ~> (streamPc = "ended")

\* C10 witness: the indexer sent on the channel while the stream was
\* suspended in select!, the stream computed one more snapshot and ended.
StreamEndsOnDoneWitness ==
    /\ indexing # None
    /\ chan = "seen"
    /\ streamPc = "ended"
    /\ Len(computed) = 3
    /\ computed[3] > computed[2]

\* C11: the first snapshot of every stream is computed without the 1-second
\* tick (no receiver, or a select! whose sleep is 0 ms) and is emitted, so
\* every stream emits at least one snapshot; a stream without a receiver
\* emits exactly one snapshot and then ends.
FirstSnapshotImmediate ==
    /\ [][(computed = <<>> /\ computed' # <<>>)
            => /\ Len(emitted') = 1
               /\ indexing # None => sleepMs' = Some(0)]_vars
    /\ [](indexing = None => (Len(computed) <= 1 /\ emitted = computed))
    /\ [](streamPc = "ended" => Len(emitted) >= 1)
    /\ <>(Len(emitted) >= 1)
    /\ (indexing = None) ~> (streamPc = "ended" /\ Len(emitted) = 1)

\* C11 witness: a stream with a receiver and no done signal yet has emitted
\* its first snapshot from the select! with the 0 ms sleep.
FirstSnapshotImmediateWitness ==
    /\ indexing # None
    /\ chan = "open"
    /\ sleepMs = Some(0)
    /\ Len(computed) = 1
    /\ Len(emitted) = 1

\* C12: a computed snapshot is suppressed if and only if its total equals
\* the total of the snapshot emitted last, the first computed snapshot is
\* never suppressed, and no two consecutive emitted snapshots have the same
\* total.
DedupConsecutive ==
    /\ [][computed' # computed
            => LET t == computed'[Len(computed')]
               IN  /\ (emitted' = emitted)
                        <=> (emitted # <<>> /\ emitted[Len(emitted)] = t)
                   /\ emitted' # emitted => emitted' = Append(emitted, t)
                   /\ computed = <<>> => emitted' = <<t>>]_vars
    /\ [](\A i \in 1..(Len(emitted) - 1) : emitted[i] # emitted[i + 1])

\* C12 witness: the second snapshot repeated the total of the first and was
\* suppressed, the third had a new total and was emitted.
DedupConsecutiveWitness ==
    /\ Len(computed) = 3
    /\ computed[2] = computed[1]
    /\ computed[3] # computed[2]
    /\ emitted = <<computed[1], computed[3]>>

\* The rows of a list as a set.
RowSet(rows) == {rows[i] : i \in 1..Len(rows)}

\* C13: the moves list of a master or personal response holds at most
\* limits.moves moves, at most 12 when limits.moves is not given; they are
\* the moves of the entry with the highest totals, in non-increasing order
\* of total.
MovesWithinLimit ==
    qResponse # None =>
        LET moves == Unwrap(qResponse).moves
            cap == IF IsSome(qLimit) THEN Unwrap(qLimit) ELSE 12
        IN  /\ Len(moves) <= cap
            /\ Len(moves) = IF Len(qRows) <= cap THEN Len(qRows) ELSE cap
            /\ RowSet(moves) \subseteq RowSet(qRows)
            /\ Cardinality(RowSet(moves)) = Len(moves)
            /\ \A i \in 1..(Len(moves) - 1) : moves[i].total >= moves[i + 1].total
            /\ \A m \in RowSet(moves) : \A n \in RowSet(qRows) \ RowSet(moves) :
                    m.total >= n.total

\* C14: read_uint on the bytes write_uint(n) produced succeeds and returns n,
\* having consumed all of them.
UintRoundtrip ==
    (uintWritten # None /\ uintRead # None) =>
        /\ Unwrap(uintRead).err = "none"
        /\ Unwrap(uintRead).value = uintN
        /\ Unwrap(uintRead).read = Len(Unwrap(uintWritten))

\* C14 witness: a value with bit 63 set was written as ten bytes and read
\* back.
UintRoundtripWitness ==
    /\ 63 \in uintN
    /\ 0 \in uintN
    /\ uintWritten # None
    /\ Len(Unwrap(uintWritten)) = 10
    /\ uintRead # None
    /\ Unwrap(uintRead).value = uintN

\* C15: read_uint fails with InvalidData on every input whose encoded value
\* spans more than 9 bytes, and a value it returns holds every one bit of
\* every 7-bit group it consumed.
ReadUintExact ==
    uintRead # None =>
        LET r == Unwrap(uintRead)
        IN  /\ (Len(uintBytes) > 9 /\ \A i \in 1..9 : uintBytes[i] >= 128)
                    => r.err = "InvalidData"
            /\ r.err = "none" =>
                    \A i \in 1..r.read :
                        \A b \in BitsOfByte(uintBytes[i] % 128) :
                            (b + 7 * (i - 1)) \in r.value

\* The position a game is in before its i-th move, by the rules of play.
RECURSIVE PosBefore(_, _)
PosBefore(moves, i) ==
    IF i = 1 THEN StartPos ELSE Play(PosBefore(moves, i - 1), moves[i - 1])
\* The distinct position keys of a game.
GameKeys(g) == {<<PosBefore(g.moves, i), g.year>> : i \in 1..Len(g.moves)}
\* Every move of the game is legal where it is played.
AllLegal(moves) == \A i \in 1..Len(moves) : Legal(PosBefore(moves, i), moves[i])
\* The ids an entry lists.
IdsAt(k) == {master[k][i].id : i \in 1..Len(master[k])}
\* A handler ends its call in this step.
Returns(p) == pc[p] # "done" /\ pc'[p] = "done"

\* C16: in every store state a game's record is present only together with
\* an operand under every position key of the game, and every GameId an
\* entry lists has a record.
ImportAtomic ==
    /\ \A id \in GameIds :
            IsSome(games[id]) =>
                \A k \in GameKeys(Unwrap(games[id])) : id \in IdsAt(k)
    /\ \A k \in MasterKeys : \A id \in IdsAt(k) : IsSome(games[id])

\* C16 witness: one game of three moves is in the store with its record and
\* its operands while another import is between its checks and its write.
ImportAtomicWitness ==
    \E p, q \in Procs :
        /\ result[p] = "Ok"
        /\ Len(body[p].moves) = 3
        /\ IsSome(games[body[p].id])
        /\ pc[q] = "write"
        /\ games[body[q].id] = None

\* C17: of the import calls carrying the same GameId at most one returns Ok,
\* and no entry lists a game more than once.
AtMostOneOk ==
    /\ \A p, q \in Procs :
            (p # q /\ result[p] = "Ok" /\ result[q] = "Ok")
                => body[p].id # body[q].id
    /\ \A k \in MasterKeys : Cardinality(IdsAt(k)) = Len(master[k])

\* C18: a call ends with exactly one result; a step changes the store only
\* if it is the step in which a call returns Ok, so a call that returns an
\* error has written nothing.
ImportFrame ==
    /\ [](\A p \in Procs :
            /\ pc[p] = "done" <=> result[p] # "none"
            /\ result[p] \in {"none", "Ok", "RejectedImport", "DuplicateGame",
                               "InvalidMove"})
    /\ [][/\ (games' # games \/ master' # master)
                => \E p \in Procs : Returns(p) /\ result'[p] = "Ok"
          /\ \A p \in Procs :
                (Returns(p) /\ result'[p] # "Ok")
                    => (games' = games /\ master' = master)
          /\ \A p \in Procs :
                pc[p] = "done" => (pc'[p] = "done" /\ result'[p] = result[p])]_vars

\* C18 witness: a call whose third move is illegal returned InvalidMove, one
\* with low ratings returned RejectedImport, and the store is empty.
ImportFrameWitness ==
    \E p, q \in Procs :
        /\ result[p] = "InvalidMove"
        /\ Len(body[p].moves) = 3
        /\ AllLegal(SubSeq(body[p].moves, 1, 2))
        /\ result[q] = "RejectedImport"
        /\ games = [id \in GameIds |-> None]
        /\ master = [k \in MasterKeys |-> <<>>]

\* C19: the step in which a call returns Ok adds exactly one operand to the
\* entry of each distinct position key of its game and none to any other
\* entry, and writes the record of its game and no other.
OneOperandPerKey ==
    [][\A p \in Procs :
        (Returns(p) /\ result'[p] = "Ok")
            => /\ \A k \in MasterKeys :
                    Len(master'[k]) = Len(master[k])
                        + (IF k \in GameKeys(body[p]) THEN 1 ELSE 0)
               /\ \A k \in GameKeys(body[p]) :
                    master'[k][Len(master'[k])].id = body[p].id
               /\ games'[body[p].id] = Some(Game(body[p]))
               /\ \A id \in GameIds \ {body[p].id} : games'[id] = games[id]]_vars

\* C19 witness: a committed game reached the starting position twice and
\* the entry of that position holds one operand.
OneOperandPerKeyWitness ==
    \E p \in Procs :
        /\ result[p] = "Ok"
        /\ body[p].moves = <<"a", "a", "a">>
        /\ Len(master[<<StartPos, body[p].year>>]) = 1
        /\ Len(master[<<1, body[p].year>>]) = 1

\* The key of the position from which the game's last move is played.
FinalKey(b) == <<PosBefore(b.moves, Len(b.moves)), b.year>>

\* C20: a call that passed the rating and id checks and has only legal
\* moves returns DuplicateGame if it has a move and the entry under its
\* final key is not empty; otherwise it goes on to write and returns Ok.
FinalKeyDuplicate ==
    [][\A p \in Procs :
        /\ (pc[p] = "walk" /\ pc'[p] # "walk" /\ AllLegal(body[p].moves))
            => IF body[p].moves # <<>> /\ master[FinalKey(body[p])] # <<>>
               THEN pc'[p] = "done" /\ result'[p] = "DuplicateGame"
               ELSE pc'[p] = "write" /\ result'[p] = "none"
        /\ (pc[p] = "write" /\ pc'[p] # "write")
            => pc'[p] = "done" /\ result'[p] = "Ok"]_vars

\* C20 witness: a call with an unused GameId was rejected because the game
\* of another call, which ends elsewhere, had passed through its final key.
FinalKeyDuplicateWitness ==
    \E p, q \in Procs :
        /\ result[p] = "DuplicateGame"
        /\ games[body[p].id] = None
        /\ Len(body[p].moves) >= 2
        /\ result[q] = "Ok"
        /\ body[q].moves # <<>>
        /\ FinalKey(body[q]) # FinalKey(body[p])

\* C21: when a stream with a receiver has ended and nothing was merged into
\* the queried keys after the indexer signalled done, the total of the last
\* snapshot emitted is the total of the store's aggregate, whether or not
\* the last snapshot computed was suppressed; and such a stream ends only
\* after the signal.
LastSnapshotCurrent ==
    (streamPc = "ended" /\ indexing # None) =>
        /\ doneTotal # None
        /\ emitted # <<>>
        /\ doneTotal = Some(total) => emitted[Len(emitted)] = total

\* C21 witness: games were merged while the stream ran, the snapshot
\* computed after the done signal repeated the total of the one before it
\* and was suppressed, and the stream ended with the store's total as its
\* last line.
LastSnapshotCurrentWitness ==
    /\ streamPc = "ended"
    /\ indexing # None
    /\ doneTotal = Some(total)
    /\ Len(emitted) = 2
    /\ Len(computed) = 3
    /\ computed[3] = computed[2]
    /\ emitted[2] = total

====
